---- MODULE Spec2Model ----
(***************************************************************************)
(* Model of the AI backend reviewer pipeline:                              *)
(*   - src/genai/client.js      analyzeEndpoint under p-retry              *)
(*   - src/analyzer/index.js    startAnalyzer (phase 1, payload artifacts),*)
(*                              the orchestrator with endpoint selection   *)
(*   - src/scripts/run-full-analysis.js  runFullPipeline / analyzeReports  *)
(*                              (phase 2, insight artifacts)               *)
(* Texts are sequences of one-character strings, indexed from 0 by the     *)
(* JavaScript helpers below as in the source.                              *)
(***************************************************************************)
EXTENDS Integers, Sequences, FiniteSets, TLC

\* ------------------------------------------------------------------ bounds
\* Largest opts.retries a caller passes explicitly.
MaxRetries == 2
\* Last millisecond the wall clock reaches; the process starts at 1 and
\* what earlier processes left on disk is stamped 0.
MaxClock == 3
\* Most endpoints the user ticks in one run.
MaxSelected == 2
\* Most top-level declarations of a controller file.
MaxTopLevel == 2

\* ------------------------------------------------------------- constants
\* client.js:179  opts.retries ?? 3
DefaultRetries == 3

NULL == "null"
UNDEFINED == "undefined"

\* ------------------------------------------------------------------ texts
Quote == "\""
Whitespace == {" ", "\n"}
WordChars == {"a", "b", "d", "e", "f", "g", "i", "j", "l", "m", "n", "o", "r",
              "s", "t", "u", "x", "y", "_", "1"}

\* String.prototype.indexOf(c): 0-based index of the first c, or -1.
indexOf(s, c) ==
  IF \E i \in 1..Len(s) : s[i] = c
  THEN (CHOOSE i \in 1..Len(s) : s[i] = c /\ \A j \in 1..(i - 1) : s[j] # c) - 1
  ELSE -1

\* String.prototype.lastIndexOf(c): 0-based index of the last c, or -1.
lastIndexOf(s, c) ==
  IF \E i \in 1..Len(s) : s[i] = c
  THEN (CHOOSE i \in 1..Len(s) : s[i] = c /\ \A j \in (i + 1)..Len(s) : s[j] # c) - 1
  ELSE -1

\* String.prototype.slice(a, b) for 0 <= a <= b.
slice(s, a, b) == SubSeq(s, a + 1, b)

\* s without its leading white space.
trimStart(s) ==
  LET at == {i \in 1..Len(s) : s[i] \notin Whitespace}
  IN IF at = {} THEN <<>>
     ELSE SubSeq(s, CHOOSE i \in at : \A j \in at : i <= j, Len(s))

\* s without its trailing white space.
trimEnd(s) ==
  LET at == {i \in 1..Len(s) : s[i] \notin Whitespace}
  IN IF at = {} THEN <<>>
     ELSE SubSeq(s, 1, CHOOSE i \in at : \A j \in at : j <= i)

\* String.prototype.trim()
trim(s) == trimEnd(trimStart(s))

\* The characters of the string values and of the keys of an insight.
chars(v) ==
  CASE v = "" -> <<>>
    [] v = "a" -> <<"a">>
    [] v = "json" -> <<"j", "s", "o", "n">>
    [] v = "null" -> <<"n", "u", "l", "l">>
    [] v = "summary" -> <<"s", "u", "m", "m", "a", "r", "y">>
    [] v = "issues" -> <<"i", "s", "s", "u", "e", "s">>
    [] v = "suggestions" -> <<"s", "u", "g", "g", "e", "s", "t", "i", "o", "n", "s">>
    [] v = "before_after" ->
         <<"b", "e", "f", "o", "r", "e", "_", "a", "f", "t", "e", "r">>
    [] v = "notes" -> <<"n", "o", "t", "e", "s">>

\* The five keys of an insight, in the order the model is asked for them.
InsightKeys == <<"summary", "issues", "suggestions", "before_after", "notes">>

\* The string values and the sequences a document of the model carries.
StringValues == {"", "a", "json"}
SequenceValues == {<<>>, <<"a">>}

\* A JSON object: the keys it has and their values (a key it does not
\* have reads as undefined; its slot then holds the empty value).
NoDoc ==
  [has |-> {}, summary |-> "", issues |-> <<>>, suggestions |-> <<>>,
   before_after |-> NULL, notes |-> ""]
FullDocs ==
  {[has |-> {"summary", "issues", "suggestions", "before_after", "notes"},
    summary |-> s, issues |-> i, suggestions |-> g, before_after |-> b,
    notes |-> n] :
     s \in StringValues, i \in SequenceValues, g \in SequenceValues,
     b \in StringValues \cup {NULL}, n \in StringValues}
PartialDocs == {[NoDoc EXCEPT !.has = {"summary"}, !.summary = s] : s \in StringValues}
Docs == FullDocs \cup PartialDocs \cup {NoDoc}

\* JSON text of a string and of a sequence of strings.
str(v) == <<Quote>> \o chars(v) \o <<Quote>>
RECURSIVE arrItems(_)
arrItems(q) ==
  IF q = <<>> THEN <<>>
  ELSE IF Len(q) = 1 THEN str(q[1])
  ELSE str(q[1]) \o <<",">> \o arrItems(Tail(q))
arr(q) == <<"[">> \o arrItems(q) \o <<"]">>

\* JSON text of the value of key k in document d.
valueText(d, k) ==
  CASE k = "summary" -> str(d.summary)
    [] k = "issues" -> arr(d.issues)
    [] k = "suggestions" -> arr(d.suggestions)
    [] k = "before_after" ->
         IF d.before_after = NULL THEN chars("null") ELSE str(d.before_after)
    [] k = "notes" -> str(d.notes)

\* JSON text of the members of d from key number i on, comma-separated.
RECURSIVE members(_, _, _)
members(d, i, first) ==
  IF i > Len(InsightKeys) THEN <<>>
  ELSE IF InsightKeys[i] \notin d.has THEN members(d, i + 1, first)
  ELSE (IF first THEN <<>> ELSE <<",">>)
       \o str(InsightKeys[i]) \o <<":">> \o valueText(d, InsightKeys[i])
       \o members(d, i + 1, FALSE)

\* JSON.stringify(d) for a document d, without indentation.
stringify(d) == <<"{">> \o members(d, 1, TRUE) \o <<"}">>

DocText == [d \in Docs |-> stringify(d)]

\* JSON.parse succeeds on a text of this alphabet exactly when the text,
\* white space around it aside, is a number (a run of digits), null, or
\* the text of a document.
JSONParses(s) ==
  LET t == trim(s)
  IN \/ (Len(t) > 0 /\ \A i \in 1..Len(t) : t[i] = "1")
     \/ t = chars("null")
     \/ \E d \in Docs : DocText[d] = t

\* JSON.parse: the parsed value, or a thrown SyntaxError.
JSONparse(s) ==
  LET t == trim(s)
  IN IF ~JSONParses(s) THEN [threw |-> TRUE, kind |-> "none", doc |-> NoDoc]
     ELSE IF t = chars("null") THEN [threw |-> FALSE, kind |-> "null", doc |-> NoDoc]
     ELSE IF t[1] = "1" THEN [threw |-> FALSE, kind |-> "number", doc |-> NoDoc]
     ELSE [threw |-> FALSE, kind |-> "object",
           doc |-> CHOOSE d \in Docs : DocText[d] = t]

\* The texts a model response carries (generateTextWithGenAI falls back to
\* JSON.stringify(resp) when the candidate text is empty, so a response
\* text is never the empty string): an object, an object after prose, a
\* brace pair around what is no object, a bare number, braces in the
\* wrong order, the JSON literal null.
ResponseTexts ==
  {<<"{", "}">>, <<"x", "{", "}">>, <<"{", "x", "}">>, <<"1">>, <<"}", "{">>,
   chars("null")}

\* ---------------------------------------------------------------- adapter
\* String.prototype.replace(/pat/g, "") for a literal pattern that cannot
\* overlap itself or that repeats one character: the matches are taken
\* from the left, none overlapping the one before, and what they cover is
\* dropped.
removeAll(s, pat) ==
  LET n == Len(pat)
      starts == {i \in 1..(Len(s) - n + 1) : SubSeq(s, i, i + n - 1) = pat}
      taken == {i \in starts :
                  Cardinality({j \in starts : j < i /\ \A k \in j..i : k \in starts})
                    % n = 0}
      covered(i) == \E m \in taken : m <= i /\ i < m + n
      keep(e) == ~covered(e[1])
      kept == SelectSeq([i \in 1..Len(s) |-> <<i, s[i]>>], keep)
  IN [k \in 1..Len(kept) |-> kept[k][2]]

\* String.prototype.replace(/a\s*(b)/g, pre + "$1") for a character a and a
\* character b out of the set bs.
RECURSIVE replaceGap(_, _, _, _)
replaceGap(s, a, bs, pre) ==
  IF s = <<>> THEN <<>>
  ELSE LET rest == trimStart(Tail(s))
       IN IF s[1] = a /\ rest # <<>> /\ Head(rest) \in bs
          THEN pre \o <<Head(rest)>> \o replaceGap(Tail(rest), a, bs, pre)
          ELSE <<s[1]>> \o replaceGap(Tail(s), a, bs, pre)

\* 0-based index of the first occurrence of pat in s at or after from, or -1.
indexOfFrom(s, pat, from) ==
  LET hits == {i \in (from + 1)..(Len(s) - Len(pat) + 1) :
                 SubSeq(s, i, i + Len(pat) - 1) = pat}
  IN IF hits = {} THEN -1
     ELSE (CHOOSE i \in hits : \A j \in hits : i <= j) - 1

Braces == {"{", "}"}
\* The backquote character, which a TLA+ string cannot hold.
Backquote == "backquote"
FenceOpen == <<Backquote, Backquote, Backquote, "j", "s", "o", "n">>
FenceClose == <<Backquote, Backquote, Backquote>>

\* adapter.js:29  rawResponse.match(/```json([\s\S]*?)```/i): the interior
\* of the first json fence, when there is one.
fenceMatch(s) ==
  LET open == indexOfFrom(s, FenceOpen, 0)
      close == IF open < 0 THEN -1
               ELSE indexOfFrom(s, FenceClose, open + Len(FenceOpen))
  IN IF open >= 0 /\ close >= 0
     THEN [matched |-> TRUE, inner |-> slice(s, open + Len(FenceOpen), close)]
     ELSE [matched |-> FALSE, inner |-> <<>>]

\* adapter.js:45  .replace(/^[^{}]*?(\{)/, "{"): drops what precedes the
\* first brace when that brace is an opening one.
stripBeforeFirstBrace(s) ==
  LET at == {i \in 1..Len(s) : s[i] \in Braces}
      first == CHOOSE i \in at : \A j \in at : i <= j
  IN IF at # {} /\ s[first] = "{" THEN SubSeq(s, first, Len(s)) ELSE s

\* adapter.js:46  .replace(/(\})[^{}]*?$/, "}"): drops what follows the
\* last brace when that brace is a closing one.
stripAfterLastBrace(s) ==
  LET at == {i \in 1..Len(s) : s[i] \in Braces}
      last == CHOOSE i \in at : \A j \in at : j <= i
  IN IF at # {} /\ s[last] = "}" THEN SubSeq(s, 1, last) ELSE s

\* The longest run of word characters s begins with.
RECURSIVE wordRun(_)
wordRun(s) ==
  IF s # <<>> /\ Head(s) \in WordChars THEN <<Head(s)>> \o wordRun(Tail(s))
  ELSE <<>>

\* adapter.js:61  .replace(/(['"])?([a-zA-Z0-9_]+)(['"])?:/g, '"$2":'): a
\* run of word characters before a ':', quoted on either side or not, is
\* rewritten as a double-quoted key.
RECURSIVE quoteKeys(_)
quoteKeys(s) ==
  IF s = <<>> THEN <<>>
  ELSE LET quotes == {"'", Quote}
           body == IF Head(s) \in quotes THEN Tail(s) ELSE s
           word == wordRun(body)
           after == SubSeq(body, Len(word) + 1, Len(body))
           tail == IF after # <<>> /\ Head(after) \in quotes THEN Tail(after)
                   ELSE after
       IN IF word # <<>> /\ tail # <<>> /\ Head(tail) = ":"
          THEN <<Quote>> \o word \o <<Quote, ":">> \o quoteKeys(Tail(tail))
          ELSE <<Head(s)>> \o quoteKeys(Tail(s))

\* adapter.js:57-62  the auto-repair pass: a comma before a closing bracket
\* is dropped, a comma is put between two objects and between two arrays,
\* keys are quoted (the typographic quotes of line 62 are not in the
\* alphabet).
autoFix(extracted) ==
  LET a == replaceGap(extracted, ",", {"]", "}"}, <<>>)
      b == replaceGap(a, "}", {"{"}, <<"}", ",">>)
      c == replaceGap(b, "]", {"["}, <<"]", ",">>)
  IN quoteKeys(c)

\* adapter.js:71-72  the length of the snippets of an error-shaped insight.
SnippetLen == 400

\* adapter.js:71-72  s.slice(0, 400) + "..."
snippet(s) ==
  SubSeq(s, 1, IF Len(s) < SnippetLen THEN Len(s) ELSE SnippetLen)
    \o <<".", ".", ".">>

SuccessKeys == {"summary", "issues", "suggestions", "before_after", "notes"}
ErrorKeys == {"error", "extracted", "raw"}

\* An object cleanGeminiResponse returns: its keys, and the value of each
\* (the slot of a key it does not have holds the empty value); threw is
\* set when the function raises instead of returning.
NoInsightFields ==
  [threw |-> FALSE, keys |-> {}, error |-> "", extracted |-> <<>>, raw |-> <<>>,
   summary |-> "", issues |-> <<>>, suggestions |-> <<>>, before_after |-> NULL,
   notes |-> ""]

\* adapter.js:78-84  parsed.k || placeholder: a key the object lacks, or a
\* property of a number, reads as undefined; undefined, null and the empty
\* string are replaced by the placeholder, a sequence (empty or not) is
\* kept. Reading a property of null raises a TypeError.
normalized(parsed) ==
  IF parsed.kind = "null" THEN [NoInsightFields EXCEPT !.threw = TRUE]
  ELSE
    LET d == parsed.doc
    IN [NoInsightFields EXCEPT
          !.keys = SuccessKeys,
          !.summary = IF d.summary = "" THEN "No summary provided." ELSE d.summary,
          !.issues = d.issues,
          !.suggestions = d.suggestions,
          !.before_after = IF d.before_after = "" THEN NULL ELSE d.before_after,
          !.notes = IF d.notes = "" THEN "No notes provided." ELSE d.notes]

\* adapter.js:28-47  steps 1 and 2: the candidate JSON text.
candidate(rawResponse) ==
  LET fence == fenceMatch(rawResponse)
      start == indexOf(rawResponse, "{")
      end == lastIndexOf(rawResponse, "}")
      step1 == IF fence.matched /\ fence.inner # <<>> THEN fence.inner
               ELSE IF start >= 0 /\ end > start
                    THEN slice(rawResponse, start, end + 1)
                    ELSE rawResponse
  IN trim(stripAfterLastBrace(stripBeforeFirstBrace(
       removeAll(removeAll(step1, FenceClose), <<"j", "s", "o", "n">>))))

\* adapter.js:24-87
cleanGeminiResponse(rawResponse) ==
  IF rawResponse = <<>>
  THEN [NoInsightFields EXCEPT !.keys = {"error"},
                               !.error = "No response from Gemini"]
  ELSE
    LET extracted == candidate(rawResponse)
        first == JSONparse(extracted)
        second == JSONparse(autoFix(extracted))
    IN IF ~first.threw THEN normalized(first)
       ELSE IF ~second.threw THEN normalized(second)
       ELSE [NoInsightFields EXCEPT
               !.keys = ErrorKeys,
               !.error = "Invalid JSON (even after auto-fix)",
               !.extracted = snippet(extracted), !.raw = snippet(rawResponse)]

\* run-full-analysis.js:97  cleanGeminiResponse(aiResult.raw) for each
\* text a response can carry.
CleanedResponse == [raw \in ResponseTexts |-> cleanGeminiResponse(raw)]

\* ------------------------------------------------------------------ state
VARIABLES
  genaiClient,   \* client.js:26 module-level SDK client, NULL when not initialised
  DEFAULT_MODEL, \* client.js:27 the model identifier used when opts.model is absent
  call,          \* the analyzeEndpoint call in progress, or the last one
  pc,            \* where the run is: see PcValues
  run,           \* the current run: its number, how it was started, its tallies
  clock,         \* the wall clock in milliseconds, as new Date() reads it
  controller,    \* the controller file the selected route file points at
  selected,      \* startAnalyzer: the selected endpoints, in choice order
  epIdx,         \* startAnalyzer: position in selected
  saving,        \* savePayload: the temporary file being written
  analysisDir,   \* the request-artifact directory analysis_reports/
  aiReports,     \* the insight directory src/ai_reports/
  payloadFiles,  \* analyzeReports: the listing it iterates over
  fileIdx,       \* analyzeReports: position in payloadFiles
  handed,        \* the payload files handed to analyzeEndpoint in this run
  reader,        \* a concurrent reader of analysis_reports/
  adapterIn,     \* cleanGeminiResponse: its argument
  adapterOut,    \* cleanGeminiResponse: what it returned
  parserIn,      \* extractFunctionCode: the controller file and the handler name
  parserOut,     \* extractFunctionCode: what it returned
  scanIn,        \* the route scanners: the disk and the path scanned
  scanOut        \* the route scanners: what each entry point returned

clientVars == <<genaiClient, DEFAULT_MODEL, call>>
pipeVars == <<pc, run, clock, controller, selected, epIdx, saving, analysisDir,
              aiReports, payloadFiles, fileIdx, handed>>
fnVars == <<adapterIn, adapterOut, parserIn, parserOut, scanIn, scanOut>>
vars == <<genaiClient, DEFAULT_MODEL, call, pc, run, clock, controller, selected,
          epIdx, saving, analysisDir, aiReports, payloadFiles, fileIdx, handed,
          reader, adapterIn, adapterOut, parserIn, parserOut, scanIn, scanOut>>

\* What the dynamic import and the GoogleGenAI constructor (client.js:29-42)
\* can leave in genaiClient: NULL when either throws, else an SDK object
\* that exposes generateContent (as models.generateContent, client.js:111-121,
\* or on the client itself, client.js:124-131: the two branches send the
\* same request and read the response the same way) or does not.
SDKShapes == {"generateContent", "none"}
ClientStates == {NULL} \cup SDKShapes

\* The model identifiers: the built-in default of client.js:27 and another.
Models == {"gemini-2.5-flash", "gemini-2.5-pro"}

\* analyzeEndpoint's second argument: retries and model given or left out.
NoOpts == [hasRetries |-> FALSE, retries |-> 0, model |-> UNDEFINED]
OptsValues ==
  {[hasRetries |-> FALSE, retries |-> 0, model |-> m] : m \in {UNDEFINED} \cup Models}
  \cup {[hasRetries |-> TRUE, retries |-> n, model |-> m] :
          n \in 0..MaxRetries, m \in {UNDEFINED} \cup Models}

\* A payload as analyzeEndpoint reads it: payload.function present or not.
PayloadArgs == {[function |-> [present |-> b, name |-> "h1"]] : b \in BOOLEAN}

IdleCall ==
  [status |-> "idle", retries |-> 0, hasRetries |-> FALSE, attempts |-> 0,
   netCalls |-> 0, responses |-> 0, waiting |-> FALSE,
   model |-> UNDEFINED, optsModel |-> UNDEFINED, defaultAtStart |-> UNDEFINED,
   requestModels |-> {},
   result |-> [raw |-> <<>>,
               parsed |-> [null |-> TRUE, kind |-> "none", doc |-> NoDoc]],
   error |-> NULL]

\* client.js:149-157,179  the guard on the payload, the model of the call
\* (opts.model || DEFAULT_MODEL, read once) and the retry count.
StartCall(payload, opts, default) ==
  IF ~payload.function.present
  THEN [IdleCall EXCEPT !.status = "rejected", !.error = "expects a payload",
                        !.hasRetries = opts.hasRetries]
  ELSE [IdleCall EXCEPT !.status = "running",
                        !.hasRetries = opts.hasRetries,
                        !.retries = IF opts.hasRetries THEN opts.retries
                                    ELSE DefaultRetries,
                        !.optsModel = opts.model,
                        !.defaultAtStart = default,
                        !.model = IF opts.model # UNDEFINED THEN opts.model
                                  ELSE default]

\* The request built from DEFAULT_MODEL as it is when the attempt starts.
requestModelReadsDefault(c, default) == default

\* client.js:160,93-94  the model of an attempt's request: the constant
\* `model` that run() closes over.
requestModel(c, default) == c.model

\* client.js:162-176  the parse of run(): on the text between the first
\* and the last brace when there is one, else on the whole text.
runParse(raw) ==
  LET firstBrace == indexOf(raw, "{")
      lastBrace == lastIndexOf(raw, "}")
      jsonText == IF firstBrace >= 0 /\ lastBrace > firstBrace
                  THEN slice(raw, firstBrace, lastBrace + 1)
                  ELSE raw
  IN JSONparse(jsonText)

\* run() with the JSON.parse outside any try: the SyntaxError escapes.
RunOutcomeParseErrorEscapes(raw) ==
  LET p == runParse(raw)
  IN [threw |-> p.threw,
      value |-> [raw |-> raw,
                 parsed |-> [null |-> p.threw \/ p.kind = "null",
                             kind |-> p.kind, doc |-> p.doc]]]

\* client.js:159-177  run(): what one attempt returns for a response text.
\* The JSON.parse is inside try/catch: an unparsable text still returns.
RunOutcome(raw) ==
  LET p == runParse(raw)
  IN [threw |-> FALSE,
      value |-> [raw |-> raw,
                 parsed |-> [null |-> p.threw \/ p.kind = "null",
                             kind |-> p.kind, doc |-> p.doc]]]

\* client.js:160-176  what run() returns for each text a response can carry.
RunOutcomes == [raw \in ResponseTexts |-> RunOutcome(raw)]

\* p-retry running one attempt more than retries + 1.
pRetryRetriesOneMore(attemptNumber, retries) == attemptNumber <= retries + 1

\* client.js:181-186  p-retry: after the failed attempt number n it runs
\* another attempt while n <= retries, and otherwise rejects with the
\* error of that attempt.
pRetryRetries(attemptNumber, retries) == attemptNumber <= retries

\* An attempt of run() that throws err, as p-retry handles it.
FailedAttempt(c, err) ==
  LET n == c.attempts + 1
  IN [c EXCEPT !.attempts = n,
               !.waiting = FALSE,
               !.error = err,
               !.status = IF pRetryRetries(n, c.retries) THEN "running"
                          ELSE "rejected"]

\* client.js:86-90  the client was never initialised: thrown before any
\* request is built.
AttemptNotInitialized ==
  /\ call.status = "running"
  /\ genaiClient = NULL
  /\ call' = FailedAttempt(call, "GenAI client not initialized")
  /\ UNCHANGED <<genaiClient, DEFAULT_MODEL, pipeVars, reader, fnVars>>

\* client.js:133-139  the SDK object exposes no generateContent.
AttemptNoGenerateContent ==
  /\ call.status = "running"
  /\ genaiClient = "none"
  /\ call' = FailedAttempt(call, "SDK does not expose generateContent")
  /\ UNCHANGED <<genaiClient, DEFAULT_MODEL, pipeVars, reader, fnVars>>

\* client.js:93-115,125  the request is built and sent; run() then awaits
\* the SDK's promise, with nothing that bounds the wait.
AttemptSend ==
  /\ call.status = "running"
  /\ ~call.waiting
  /\ genaiClient = "generateContent"
  /\ call' = [call EXCEPT !.waiting = TRUE,
                          !.netCalls = @ + 1,
                          !.requestModels = @ \cup {requestModel(call, DEFAULT_MODEL)}]
  /\ UNCHANGED <<genaiClient, DEFAULT_MODEL, pipeVars, reader, fnVars>>

\* client.js:115,125,136-139  the SDK call rejects.
AttemptTransportError ==
  /\ call.status = "running"
  /\ call.waiting
  /\ call' = FailedAttempt(call, "transport error")
  /\ UNCHANGED <<genaiClient, DEFAULT_MODEL, pipeVars, reader, fnVars>>

\* client.js:115-130,159-177  a text comes back.
AttemptReturnsText ==
  /\ call.status = "running"
  /\ call.waiting
  /\ \E raw \in ResponseTexts :
       LET out == RunOutcomes[raw]
           c == [call EXCEPT !.responses = @ + 1]
       IN call' = IF out.threw
                  THEN FailedAttempt(c, "run threw")
                  ELSE [c EXCEPT !.attempts = @ + 1, !.waiting = FALSE,
                                 !.status = "resolved", !.result = out.value]
  /\ UNCHANGED <<genaiClient, DEFAULT_MODEL, pipeVars, reader, fnVars>>

\* What the code does of an attempt, and what the model service does.
AttemptStep ==
  \/ AttemptNotInitialized
  \/ AttemptNoGenerateContent
  \/ AttemptSend

Attempt ==
  \/ AttemptStep
  \/ AttemptTransportError
  \/ AttemptReturnsText

\* client.js:194-196  setModel(modelId), from any caller at any time.
SetModel ==
  /\ pc = "idle"
  /\ \E modelId \in Models : DEFAULT_MODEL' = modelId
  /\ UNCHANGED <<genaiClient, call, pipeVars, reader, fnVars>>

\* --------------------------------------------------------------- pipeline
\* The endpoints of the route files: two of them share a handler.
EP(m, p, h) == [method |-> m, path |-> p, handler |-> h]
RouteEndpoints ==
  <<EP("GET", "/", "getUsers"), EP("GET", "/:id", "getUser"),
    EP("GET", "/all", "getUsers")>>
Handlers == {RouteEndpoints[i].handler : i \in DOMAIN RouteEndpoints}

\* The i-th smallest element of a set of numbers, as a sequence.
RECURSIVE Ascending(_)
Ascending(J) ==
  IF J = {} THEN <<>>
  ELSE LET m == CHOOSE x \in J : \A y \in J : x <= y
       IN <<m>> \o Ascending(J \ {m})

\* index.js:70-89  the checkbox answers come back in choice order, and each
\* label names one endpoint of the scan (the labels of RouteEndpoints are
\* pairwise different, so find() returns the endpoint ticked).
SelectedEndpoints(J) ==
  LET order == Ascending(J) IN [i \in DOMAIN order |-> RouteEndpoints[order[i]]]

\* A node of a controller file's syntax tree, as far as the traversal
\* reads it: its type, the name it declares, the type of the initialiser
\* of a declarator, and the declarations nested in its function body.
Node(type, name, init, body) ==
  [type |-> type, name |-> name, init |-> init, body |-> body]
FunctionDeclaration(name, body) == Node("FunctionDeclaration", name, "none", body)
VariableDeclarator(name, init, body) == Node("VariableDeclarator", name, init, body)
FunctionInits == {"ArrowFunctionExpression", "FunctionExpression"}

\* The controller files of the pipeline: each handler declared or not,
\* one as a function declaration, one as a binding to an arrow function.
ControllerAsts ==
  {<<>>,
   <<FunctionDeclaration("getUsers", <<>>)>>,
   <<VariableDeclarator("getUser", "ArrowFunctionExpression", <<>>)>>,
   <<FunctionDeclaration("getUsers", <<>>),
     VariableDeclarator("getUser", "ArrowFunctionExpression", <<>>)>>}

\* The controller file on disk: absent, unparsable, or a syntax tree.
NoController == [exists |-> FALSE, parses |-> FALSE, ast |-> <<>>]
ControllerStates ==
  {NoController, [exists |-> TRUE, parses |-> FALSE, ast |-> <<>>]}
  \cup {[exists |-> TRUE, parses |-> TRUE, ast |-> t] : t \in ControllerAsts}

\* The nodes of a body in the order the traversal enters them (a node,
\* then what is nested in it), each with its place: <<i>> for the i-th
\* top-level declaration, <<i, j>> for the j-th declaration nested in it.
RECURSIVE nested(_, _, _)
nested(body, i, j) ==
  IF j > Len(body) THEN <<>>
  ELSE <<[node |-> body[j], at |-> <<i, j>>]>> \o nested(body, i, j + 1)
RECURSIVE preorder(_, _)
preorder(ast, i) ==
  IF i > Len(ast) THEN <<>>
  ELSE <<[node |-> ast[i], at |-> <<i>>]>> \o nested(ast[i].body, i, 1)
       \o preorder(ast, i + 1)

\* ast-parser.js:44-70  the two visitors: a function declaration of that
\* name, or a declarator of that name initialised with a function.
visitorMatches(node, handlerName) ==
  \/ node.type = "FunctionDeclaration" /\ node.name = handlerName
  \/ /\ node.type = "VariableDeclarator" /\ node.name = handlerName
     /\ node.init \in FunctionInits

NotExtracted == [threw |-> FALSE, found |-> FALSE, at |-> <<>>]

\* extractFunctionCode without the existence check of lines 27-30: reading
\* a missing file raises.
extractFunctionCodeMissingFileThrows(ctrl, handlerName) ==
  IF ~ctrl.exists \/ ~ctrl.parses THEN [NotExtracted EXCEPT !.threw = TRUE]
  ELSE LET visit == preorder(ctrl.ast, 1)
           hits == {k \in DOMAIN visit : visitorMatches(visit[k].node, handlerName)}
       IN IF hits = {} THEN NotExtracted
          ELSE [threw |-> FALSE, found |-> TRUE,
                at |-> visit[CHOOSE k \in hits : \A l \in hits : k <= l].at]

\* ast-parser.js:26-78  null for a missing file or an unknown name; the
\* call babelParser.parse (line 35) is not guarded, so a file that does not
\* parse makes extractFunctionCode throw. One traversal runs both visitors
\* over every node of the file, nested ones included, and stops at the
\* first node either of them accepts.
extractFunctionCode(ctrl, handlerName) ==
  IF ~ctrl.exists THEN NotExtracted
  ELSE IF ~ctrl.parses THEN [NotExtracted EXCEPT !.threw = TRUE]
  ELSE LET visit == preorder(ctrl.ast, 1)
           hits == {k \in DOMAIN visit : visitorMatches(visit[k].node, handlerName)}
       IN IF hits = {} THEN NotExtracted
          ELSE [threw |-> FALSE, found |-> TRUE,
                at |-> visit[CHOOSE k \in hits : \A l \in hits : k <= l].at]

\* serializer.buildPayload(endpoint, refined, safe): the payload document.
buildPayload(endpoint) ==
  [endpoint |-> endpoint,
   function |-> [present |-> TRUE, name |-> endpoint.handler,
                 cleanedCode |-> TRUE, sanitizedCode |-> TRUE]]

\* serializer.savePayload: the file name, handler name plus timestamp.
PayloadName(payload, now, ext) ==
  [handler |-> payload.function.name, ts |-> now, ext |-> ext]

NoDirectory == [exists |-> FALSE, files |-> {}]
NoFile == [name |-> [handler |-> "", ts |-> 0, ext |-> ""], complete |-> FALSE,
           payload |-> buildPayload(EP("", "", "")), run |-> 0]

Names(dir) == {f.name : f \in dir.files}
FileNamed(dir, n) == CHOOSE f \in dir.files : f.name = n

\* Writing path n: a file of that name is replaced.
WriteFile(files, f) == {g \in files : g.name # f.name} \cup {f}

\* The clean-up left out: the directory is only created when absent.
ClearAnalysisDirKeepsFiles(dir) == [exists |-> TRUE, files |-> dir.files]

\* run-full-analysis.js:124-127  rmSync then mkdirSync: an empty directory.
ClearAnalysisDir(dir) == [exists |-> TRUE, files |-> {}]

\* The listing without its filter: every directory entry.
PayloadFilterEveryEntry(names) == names

\* run-full-analysis.js:73-75  readdirSync(...).filter(f => f.endsWith(".json")
\* && !f.includes("last_session")); no handler name holds "last_session".
PayloadFilter(names) == {n \in names : n.ext = "json"}

\* run-full-analysis.js:99-101  the report name: endpoint name plus the
\* ISO timestamp, to the millisecond, with ':' and '.' replaced.
ReportName(endpointName, now) == [handler |-> endpointName, ts |-> now]

\* No catch: the error ends analyzeReports and the process.
sweepRethrow(r) == [pc |-> "done", run |-> [r EXCEPT !.exit = "failure"]]

\* run-full-analysis.js:106-108  the catch around one file's analysis logs
\* the error; the for loop goes on with the next file.
sweepCatch(r) == [pc |-> "sweep", run |-> r]

\* The process at hand is run 1; what earlier processes wrote is run 0.
NewRun(mode) ==
  [id |-> 1, mode |-> mode, skipped |-> 0, saved |-> 0,
   writeFailed |-> FALSE, crash |-> "none", exit |-> "running",
   cleared |-> 0, overwrote |-> FALSE]

\* The analyzer child ends with an unhandled rejection: node exits with a
\* non-zero status, execSync throws and runAnalyzer (run-full-analysis.js:
\* 61-64) calls process.exit(1).
Crashed(r, cause) == [r EXCEPT !.crash = cause, !.exit = "failure"]

\* readdirSync promises no order.
Orderings(S) ==
  {q \in [1..Cardinality(S) -> S] : \A i, j \in DOMAIN q : i # j => q[i] # q[j]}

\* ------------------------------------------------------- phase 1: analyzer
\* run-full-analysis.js:120-129 and index.js:27-85  a pipeline run begins:
\* the route file is chosen, analysis_reports/ is cleared and recreated,
\* the analyzer child scans the route file and the user ticks endpoints.
RunFullPipeline ==
  /\ pc = "idle"
  /\ call.status = "idle"
  /\ run' = [NewRun("pipeline") EXCEPT
               !.cleared = Cardinality(PayloadFilter(Names(analysisDir)))]
  /\ analysisDir' = ClearAnalysisDir(analysisDir)
  /\ controller' \in ControllerStates
  /\ \E scanned \in SUBSET DOMAIN RouteEndpoints :
       IF scanned = {}
       THEN \* index.js:64-67 no endpoints: the analyzer returns
            /\ selected' = <<>>
            /\ pc' = "sweepStart"
       ELSE \E ticked \in (SUBSET scanned) \ {{}} :
              /\ Cardinality(ticked) <= MaxSelected
              /\ selected' = SelectedEndpoints(ticked)
              /\ pc' = "analyzer"
  /\ epIdx' = 1
  /\ payloadFiles' = <<>>
  /\ fileIdx' = 1
  /\ handed' = {}
  /\ UNCHANGED <<genaiClient, DEFAULT_MODEL, call, clock, saving, aiReports, reader, fnVars>>

\* index.js:27-85  the analyzer started on its own (node src/analyzer/
\* index.js): nothing clears analysis_reports/ first.
StartAnalyzer ==
  /\ pc = "idle"
  /\ call.status = "idle"
  /\ run' = NewRun("standalone")
  /\ controller' \in ControllerStates
  /\ \E ticked \in (SUBSET DOMAIN RouteEndpoints) \ {{}} :
       /\ Cardinality(ticked) <= MaxSelected
       /\ selected' = SelectedEndpoints(ticked)
  /\ pc' = "analyzer"
  /\ epIdx' = 1
  /\ payloadFiles' = <<>>
  /\ fileIdx' = 1
  /\ handed' = {}
  /\ UNCHANGED <<genaiClient, DEFAULT_MODEL, call, clock, saving, analysisDir, aiReports, reader, fnVars>>

AtEndpoint == pc = "analyzer" /\ epIdx <= Len(selected)
Extracted == extractFunctionCode(controller, selected[epIdx].handler)

\* index.js:98-102  extraction returned null: warn and continue.
ExtractMiss ==
  /\ AtEndpoint
  /\ ~Extracted.threw /\ ~Extracted.found
  /\ epIdx' = epIdx + 1
  /\ run' = [run EXCEPT !.skipped = @ + 1]
  /\ UNCHANGED <<genaiClient, DEFAULT_MODEL, call, pc, clock, controller, selected, saving,
                 analysisDir, aiReports, payloadFiles, fileIdx, handed, reader, fnVars>>

\* index.js:98 and ast-parser.js:35  the parser throws: nothing in
\* startAnalyzer catches it, the analyzer process dies.
ExtractThrows ==
  /\ AtEndpoint
  /\ Extracted.threw
  /\ run' = Crashed(run, "SyntaxError")
  /\ pc' = "done"
  /\ UNCHANGED <<genaiClient, DEFAULT_MODEL, call, clock, controller, selected, epIdx, saving,
                 analysisDir, aiReports, payloadFiles, fileIdx, handed, reader, fnVars>>

\* index.js:104-107  savePayload begins: the directory is created when
\* absent and the temporary file is opened.
SaveBegin ==
  /\ AtEndpoint
  /\ Extracted.found
  /\ \E d \in 0..1 :
       /\ clock + d <= MaxClock
       /\ clock' = clock + d
       /\ LET payload == buildPayload(selected[epIdx])
              tmp == [name |-> PayloadName(payload, clock + d, "tmp"),
                      complete |-> FALSE, payload |-> payload, run |-> run.id]
          IN /\ saving' = tmp
             /\ analysisDir' = [exists |-> TRUE,
                                files |-> WriteFile(analysisDir.files, tmp)]
  /\ pc' = "saveWrite"
  /\ UNCHANGED <<genaiClient, DEFAULT_MODEL, call, run, controller, selected, epIdx, aiReports,
                 payloadFiles, fileIdx, handed, reader, fnVars>>

\* index.js:107  savePayload throws before it writes (the directory cannot
\* be created): the analyzer process dies.
SaveBeginFails ==
  /\ AtEndpoint
  /\ Extracted.found
  /\ run' = [Crashed(run, "persistence") EXCEPT !.writeFailed = TRUE]
  /\ pc' = "done"
  /\ UNCHANGED <<genaiClient, DEFAULT_MODEL, call, clock, controller, selected, epIdx, saving,
                 analysisDir, aiReports, payloadFiles, fileIdx, handed, reader, fnVars>>

\* savePayload: the document is written to the temporary file.
SaveWrite ==
  /\ pc = "saveWrite"
  /\ saving' = [saving EXCEPT !.complete = TRUE]
  /\ analysisDir' = [analysisDir EXCEPT
                       !.files = WriteFile(@, [saving EXCEPT !.complete = TRUE])]
  /\ pc' = "saveRename"
  /\ UNCHANGED <<genaiClient, DEFAULT_MODEL, call, run, clock, controller, selected, epIdx,
                 aiReports, payloadFiles, fileIdx, handed, reader, fnVars>>

\* savePayload: the write fails part-way (disk full); the temporary file
\* stays behind, incomplete, and the analyzer process dies.
SaveWriteFails ==
  /\ pc = "saveWrite"
  /\ run' = [Crashed(run, "persistence") EXCEPT !.writeFailed = TRUE]
  /\ pc' = "done"
  /\ saving' = NoFile
  /\ UNCHANGED <<genaiClient, DEFAULT_MODEL, call, clock, controller, selected, epIdx,
                 analysisDir, aiReports, payloadFiles, fileIdx, handed, reader, fnVars>>

\* savePayload: the temporary file is renamed to its .json name, and the
\* loop of index.js:85 goes on.
SaveRename ==
  /\ pc = "saveRename"
  /\ LET final == [saving EXCEPT !.name.ext = "json"]
     IN analysisDir' = [analysisDir EXCEPT
          !.files = WriteFile({g \in @ : g.name # saving.name}, final)]
  /\ saving' = NoFile
  /\ run' = [run EXCEPT !.saved = @ + 1,
                        !.overwrote = @ \/ [saving.name EXCEPT !.ext = "json"]
                                                \in Names(analysisDir)]
  /\ epIdx' = epIdx + 1
  /\ pc' = "analyzer"
  /\ UNCHANGED <<genaiClient, DEFAULT_MODEL, call, clock, controller, selected, aiReports,
                 payloadFiles, fileIdx, handed, reader, fnVars>>

\* index.js:116  the loop is over; run-full-analysis.js:129-130 goes on to
\* the sweep when the analyzer was its child.
AnalyzerComplete ==
  /\ pc = "analyzer"
  /\ epIdx > Len(selected)
  /\ IF run.mode = "pipeline"
     THEN pc' = "sweepStart" /\ run' = run
     ELSE pc' = "done" /\ run' = [run EXCEPT !.exit = "success"]
  /\ UNCHANGED <<genaiClient, DEFAULT_MODEL, call, clock, controller, selected, epIdx, saving,
                 analysisDir, aiReports, payloadFiles, fileIdx, handed, reader, fnVars>>

Analyzer ==
  \/ ExtractMiss
  \/ ExtractThrows
  \/ SaveBegin
  \/ SaveBeginFails
  \/ SaveWrite
  \/ SaveWriteFails
  \/ SaveRename
  \/ AnalyzerComplete

\* ---------------------------------------------------------- phase 2: sweep
\* run-full-analysis.js:70-80  analyzeReports lists the payload files.
SweepStart ==
  /\ pc = "sweepStart"
  /\ LET listing == PayloadFilter(Names(analysisDir))
     IN IF listing = {}
        THEN /\ payloadFiles' = <<>>
             /\ pc' = "done"
             /\ run' = [run EXCEPT !.exit = "success"]
        ELSE /\ payloadFiles' \in Orderings(listing)
             /\ pc' = "sweep"
             /\ run' = run
  /\ fileIdx' = 1
  /\ UNCHANGED <<genaiClient, DEFAULT_MODEL, call, clock, controller, selected, epIdx, saving,
                 analysisDir, aiReports, handed, reader, fnVars>>

\* run-full-analysis.js:82-96  one file of the listing: read and parsed
\* (outside the try: a text that is no JSON ends the sweep with the
\* SyntaxError), skipped when it carries no code, else handed to
\* analyzeEndpoint with no options.
SweepFile ==
  /\ pc = "sweep"
  /\ fileIdx <= Len(payloadFiles)
  /\ LET file == FileNamed(analysisDir, payloadFiles[fileIdx])
         payload == file.payload
     IN IF ~file.complete
        THEN /\ pc' = "done"
             /\ run' = Crashed(run, "payload SyntaxError")
             /\ UNCHANGED <<call, handed, fileIdx>>
        ELSE IF ~payload.function.cleanedCode /\ ~payload.function.sanitizedCode
        THEN /\ fileIdx' = fileIdx + 1
             /\ UNCHANGED <<call, handed, pc, run>>
        ELSE /\ call' = StartCall(payload, NoOpts, DEFAULT_MODEL)
             /\ handed' = handed \cup {file}
             /\ pc' = "awaitModel"
             /\ UNCHANGED <<fileIdx, run>>
  /\ UNCHANGED <<genaiClient, DEFAULT_MODEL, clock, controller, selected, epIdx, saving,
                 analysisDir, aiReports, payloadFiles, reader, fnVars>>

\* run-full-analysis.js:96,106-108  analyzeEndpoint rejected: the catch.
\* (aiResult is local to the iteration: the call is over either way.)
SweepModelFailed ==
  /\ pc = "awaitModel"
  /\ call.status = "rejected"
  /\ pc' = sweepCatch(run).pc
  /\ run' = sweepCatch(run).run
  /\ fileIdx' = fileIdx + 1
  /\ call' = IdleCall
  /\ UNCHANGED <<genaiClient, DEFAULT_MODEL, clock, controller, selected, epIdx, saving,
                 analysisDir, aiReports, payloadFiles, handed, reader, fnVars>>

\* run-full-analysis.js:96-105  analyzeEndpoint resolved: the response is
\* cleaned and written under the report name of this millisecond.
SweepSaveInsight ==
  /\ pc = "awaitModel"
  /\ call.status = "resolved"
  /\ ~CleanedResponse[call.result.raw].threw
  /\ \E d \in 0..1 :
       /\ clock + d <= MaxClock
       /\ clock' = clock + d
       /\ LET of == payloadFiles[fileIdx]
              endpointName == FileNamed(analysisDir, of).payload.function.name
              report == [name |-> ReportName(endpointName, clock + d),
                         content |-> CleanedResponse[call.result.raw],
                         of |-> of, run |-> run.id]
          IN aiReports' = WriteFile(aiReports, report)
  /\ pc' = "sweep"
  /\ fileIdx' = fileIdx + 1
  /\ call' = IdleCall
  /\ UNCHANGED <<genaiClient, DEFAULT_MODEL, run, controller, selected, epIdx, saving,
                 analysisDir, payloadFiles, handed, reader, fnVars>>

\* run-full-analysis.js:104,106-108  writeFileSync throws (disk full): the
\* same catch logs it and the loop goes on.
SweepSaveInsightFails ==
  /\ pc = "awaitModel"
  /\ call.status = "resolved"
  /\ ~CleanedResponse[call.result.raw].threw
  /\ pc' = sweepCatch(run).pc
  /\ run' = [sweepCatch(run).run EXCEPT !.writeFailed = TRUE]
  /\ fileIdx' = fileIdx + 1
  /\ call' = IdleCall
  /\ UNCHANGED <<genaiClient, DEFAULT_MODEL, clock, controller, selected, epIdx, saving,
                 analysisDir, aiReports, payloadFiles, handed, reader, fnVars>>

\* run-full-analysis.js:97,106-108  cleanGeminiResponse raises on the
\* response text: the same catch, no insight is written.
SweepCleanThrows ==
  /\ pc = "awaitModel"
  /\ call.status = "resolved"
  /\ CleanedResponse[call.result.raw].threw
  /\ pc' = sweepCatch(run).pc
  /\ run' = sweepCatch(run).run
  /\ fileIdx' = fileIdx + 1
  /\ call' = IdleCall
  /\ UNCHANGED <<genaiClient, DEFAULT_MODEL, clock, controller, selected, epIdx,
                 saving, analysisDir, aiReports, payloadFiles, handed, reader,
                 fnVars>>

\* run-full-analysis.js:109-112  the loop is over: analyzeReports returns
\* and the process ends with status 0.
SweepComplete ==
  /\ pc = "sweep"
  /\ fileIdx > Len(payloadFiles)
  /\ pc' = "done"
  /\ run' = [run EXCEPT !.exit = "success"]
  /\ UNCHANGED <<genaiClient, DEFAULT_MODEL, call, clock, controller, selected, epIdx, saving,
                 analysisDir, aiReports, payloadFiles, fileIdx, handed, reader, fnVars>>

Sweep ==
  \/ SweepStart
  \/ SweepFile
  \/ SweepModelFailed
  \/ SweepSaveInsight
  \/ SweepSaveInsightFails
  \/ SweepCleanThrows
  \/ SweepComplete

\* ------------------------------------------------------ concurrent reader
\* Another process lists analysis_reports/ as analyzeReports does
\* (run-full-analysis.js:73-75) ...
ReaderList ==
  /\ analysisDir.exists
  /\ reader' = [reader EXCEPT !.listing = PayloadFilter(Names(analysisDir))]
  /\ UNCHANGED <<clientVars, pipeVars, fnVars>>

\* ... and reads one file of its listing (run-full-analysis.js:83-84).
ReaderRead ==
  /\ \E n \in reader.listing :
       reader' = [listing |-> reader.listing \ {n},
                  observed |-> reader.observed \cup
                    {[name |-> f.name, complete |-> f.complete] :
                       f \in {g \in analysisDir.files : g.name = n}}]
  /\ UNCHANGED <<clientVars, pipeVars, fnVars>>

\* client.js:149  a caller invokes analyzeEndpoint(payload, opts).
AnalyzeEndpointCalled ==
  /\ pc = "idle"
  /\ call.status # "running"
  /\ \E payload \in PayloadArgs, opts \in OptsValues :
       call' = StartCall(payload, opts, DEFAULT_MODEL)
  /\ UNCHANGED <<genaiClient, DEFAULT_MODEL, pipeVars, reader, fnVars>>

\* ---------------------------------------------------------- route scanners
\* The entries a routes directory can hold, in the order readdirSync
\* lists them, and the router.METHOD(...) calls each file holds.
RouteFileNames == <<"notes.txt", "post.routes.js", "user.routes.js">>
RouteCalls(file) ==
  CASE file = "user.routes.js" -> RouteEndpoints
    [] file = "post.routes.js" -> <<EP("POST", "/", "createPost")>>
    [] file = "notes.txt" -> <<>>

\* f.endsWith(".js")
endsWithJs(file) == file \in {"post.routes.js", "user.routes.js"}

\* route-reflector.js:36-37  path.basename(filePath, ".js").replace(
\* ".routes", ".controller.js")
controllerFile(file) ==
  CASE file = "user.routes.js" -> "user.controller.js"
    [] file = "post.routes.js" -> "post.controller.js"
    [] file = "notes.txt" -> "notes.txt"

\* The routes directory on disk: there or not, and the entries in it.
RoutesDisks ==
  {[exists |-> FALSE, files |-> {}]}
  \cup {[exists |-> TRUE, files |-> F] :
          F \in SUBSET {RouteFileNames[i] : i \in DOMAIN RouteFileNames}}

Returned(endpoints) == [threw |-> FALSE, endpoints |-> endpoints]
\* fs.readFileSync / fs.readdirSync on a path that does not exist: ENOENT.
Raised == [threw |-> TRUE, endpoints |-> <<>>]

\* route-reflector.js:24-54
scanRoutesFile(disk, filePath) ==
  IF filePath \notin disk.files THEN Returned(<<>>)
  ELSE LET calls == RouteCalls(filePath)
       IN Returned([i \in DOMAIN calls |->
                      [method |-> calls[i].method, path |-> calls[i].path,
                       handler |-> calls[i].handler,
                       controller |-> controllerFile(filePath)]])

\* The sequences of q, one after another.
RECURSIVE concat(_)
concat(q) == IF q = <<>> THEN <<>> ELSE Head(q) \o concat(Tail(q))

\* readdirSync(dir).filter(f => f.endsWith(".js")): for each entry of the
\* listing, whether the loop scans it.
listed(disk, file) == file \in disk.files /\ endsWithJs(file)

\* route-reflector.js:61-77
scanRoutesDirectory(disk) ==
  IF ~disk.exists THEN Returned(<<>>)
  ELSE Returned(concat([i \in DOMAIN RouteFileNames |->
                          IF listed(disk, RouteFileNames[i])
                          THEN scanRoutesFile(disk, RouteFileNames[i]).endpoints
                          ELSE <<>>]))

\* route-reflector.js:106-126  readFileSync with no existence check.
extractEndpointsFromFile(disk, filePath) ==
  IF filePath \notin disk.files THEN Raised
  ELSE LET calls == RouteCalls(filePath)
       IN Returned([i \in DOMAIN calls |->
                      [method |-> calls[i].method, path |-> calls[i].path,
                       handler |-> calls[i].handler, file |-> filePath]])

\* route-reflector.js:133-144  the second scanRoutesDirectory of the
\* file: readdirSync with no existence check.
scanRoutesDirectoryOfModule(disk) ==
  IF ~disk.exists THEN Raised
  ELSE Returned(concat([i \in DOMAIN RouteFileNames |->
                          IF listed(disk, RouteFileNames[i])
                          THEN extractEndpointsFromFile(disk, RouteFileNames[i]).endpoints
                          ELSE <<>>]))

NotScanned == [fn |-> "none", threw |-> FALSE, endpoints |-> <<>>]
Scanned(fn, result) ==
  [fn |-> fn, threw |-> result.threw, endpoints |-> result.endpoints]

ScanRoutesFile ==
  /\ scanOut.fn = "none"
  /\ scanOut' = Scanned("scanRoutesFile", scanRoutesFile(scanIn.disk, scanIn.file))
  /\ UNCHANGED <<clientVars, pipeVars, reader, adapterIn, adapterOut, parserIn,
                 parserOut, scanIn>>

ScanRoutesDirectory ==
  /\ scanOut.fn = "none"
  /\ scanOut' = Scanned("scanRoutesDirectory", scanRoutesDirectory(scanIn.disk))
  /\ UNCHANGED <<clientVars, pipeVars, reader, adapterIn, adapterOut, parserIn,
                 parserOut, scanIn>>

ExtractEndpointsFromFile ==
  /\ scanOut.fn = "none"
  /\ scanOut' = Scanned("extractEndpointsFromFile",
                        extractEndpointsFromFile(scanIn.disk, scanIn.file))
  /\ UNCHANGED <<clientVars, pipeVars, reader, adapterIn, adapterOut, parserIn,
                 parserOut, scanIn>>

ScanRoutesDirectoryOfModule ==
  /\ scanOut.fn = "none"
  /\ scanOut' = Scanned("scanRoutesDirectoryOfModule",
                        scanRoutesDirectoryOfModule(scanIn.disk))
  /\ UNCHANGED <<clientVars, pipeVars, reader, adapterIn, adapterOut, parserIn,
                 parserOut, scanIn>>

\* ------------------------------------------------- adapter and parser calls
NotCleaned == [applied |-> FALSE, value |-> NoInsightFields]

\* A json-tagged fenced block around a text, as the prompt asks for it.
Fenced(t) == FenceOpen \o <<"\n">> \o t \o <<"\n">> \o FenceClose

\* An object with a comma before its closing brace, and one with a key
\* left unquoted: what the auto-repair pass is for.
TrailingComma == <<"{">> \o str("summary") \o <<":">> \o str("a") \o <<",", "}">>
UnquotedKey == <<"{">> \o chars("summary") \o <<":">> \o str("a") \o <<"}">>

\* The raw texts cleanGeminiResponse is applied to.
AdapterInputs ==
  {<<>>, <<"x">>, TrailingComma, UnquotedKey}
  \cup ResponseTexts
  \cup {Fenced(DocText[d]) : d \in FullDocs}
  \cup {DocText[d] : d \in PartialDocs}

\* adapter.js:24  cleanGeminiResponse(rawResponse)
CleanGeminiResponse ==
  /\ ~adapterOut.applied
  /\ adapterOut' = [applied |-> TRUE, value |-> cleanGeminiResponse(adapterIn)]
  /\ UNCHANGED <<clientVars, pipeVars, reader, adapterIn, parserIn, parserOut,
                 scanIn, scanOut>>

\* What a function body of a controller file declares, and the top-level
\* declarations of a controller file: the handler h or another name g,
\* as a function declaration or as a binding to a function or to a number.
NestedNodes ==
  {FunctionDeclaration("h", <<>>), FunctionDeclaration("g", <<>>),
   VariableDeclarator("h", "ArrowFunctionExpression", <<>>),
   VariableDeclarator("h", "NumericLiteral", <<>>)}
Bodies == {<<>>} \cup {<<n>> : n \in NestedNodes}
TopLevelNodes ==
  {FunctionDeclaration(n, b) : n \in {"h", "g"}, b \in Bodies}
  \cup {VariableDeclarator(n, i, b) : n \in {"h", "g"}, i \in FunctionInits, b \in Bodies}
  \cup {VariableDeclarator(n, "NumericLiteral", <<>>) : n \in {"h", "g"}}

\* The controller files extractFunctionCode is applied to.
ParserInputs ==
  {[ctrl |-> c, handlerName |-> "h"] :
     c \in {NoController, [exists |-> TRUE, parses |-> FALSE, ast |-> <<>>]}
           \cup {[exists |-> TRUE, parses |-> TRUE, ast |-> t] :
                   t \in UNION {[1..n -> TopLevelNodes] : n \in 0..MaxTopLevel}}}

NotParsed == [applied |-> FALSE, value |-> NotExtracted]

\* ast-parser.js:26  extractFunctionCode(filePath, handlerName)
ExtractFunctionCode ==
  /\ ~parserOut.applied
  /\ parserOut' = [applied |-> TRUE,
                   value |-> extractFunctionCode(parserIn.ctrl, parserIn.handlerName)]
  /\ UNCHANGED <<clientVars, pipeVars, reader, adapterIn, adapterOut, parserIn,
                 scanIn, scanOut>>

\* -------------------------------------------------------------- other writer
\* What a program other than the pipeline can put into analysis_reports/
\* while the pipeline runs: a .json file that is no JSON document, and a
\* JSON document without function.cleanedCode and function.sanitizedCode.
\* (run 2: written by neither this run nor an earlier one.)
ForeignFiles ==
  {[name |-> [handler |-> "draft", ts |-> 0, ext |-> "json"], complete |-> FALSE,
    payload |-> buildPayload(EP("", "", "")), run |-> 2],
   [name |-> [handler |-> "manual", ts |-> 0, ext |-> "json"], complete |-> TRUE,
    payload |-> [buildPayload(EP("", "", "")) EXCEPT
                   !.function.cleanedCode = FALSE,
                   !.function.sanitizedCode = FALSE],
    run |-> 2]}

\* run-full-analysis.js:73-75  the listing takes whatever .json entries the
\* directory holds when analyzeReports starts.
OtherWriter ==
  /\ pc = "sweepStart"
  /\ \E f \in ForeignFiles :
       /\ f \notin analysisDir.files
       /\ analysisDir' = [analysisDir EXCEPT !.files = WriteFile(@, f)]
  /\ UNCHANGED <<clientVars, pc, run, clock, controller, selected, epIdx, saving,
                 aiReports, payloadFiles, fileIdx, handed, reader, fnVars>>

\* ---------------------------------------------------------- specifications
\* What earlier processes can have left on disk: no directory, an empty
\* one, or a payload of an earlier run beside a temporary file that an
\* interrupted save never finished.
StalePayload ==
  [name |-> PayloadName(buildPayload(RouteEndpoints[1]), 0, "json"),
   complete |-> TRUE, payload |-> buildPayload(RouteEndpoints[1]), run |-> 0]
StaleTemp ==
  [name |-> PayloadName(buildPayload(RouteEndpoints[2]), 0, "tmp"),
   complete |-> FALSE, payload |-> buildPayload(RouteEndpoints[2]), run |-> 0]
UsedAnalysisDir == [exists |-> TRUE, files |-> {StalePayload, StaleTemp}]

StaleReport ==
  [name |-> ReportName("getUsers", 0), content |-> cleanGeminiResponse(<<"{", "}">>),
   of |-> StalePayload.name, run |-> 0]
\* The disk before the first run ever, and after an earlier run.
InitialDisks ==
  {[analysisDir |-> NoDirectory, aiReports |-> {}],
   [analysisDir |-> UsedAnalysisDir, aiReports |-> {StaleReport}]}

\* A process starts: the module state of client.js with the given SDK
\* client, and the given disk.
ProcessStart(client, disk) ==
  /\ genaiClient = client
  /\ DEFAULT_MODEL = "gemini-2.5-flash"
  /\ call = IdleCall
  /\ pc = "idle"
  /\ run = NewRun("pipeline")
  /\ clock = 1
  /\ controller = NoController
  /\ selected = <<>>
  /\ epIdx = 1
  /\ saving = NoFile
  /\ analysisDir = disk.analysisDir /\ aiReports = disk.aiReports
  /\ payloadFiles = <<>>
  /\ fileIdx = 1
  /\ handed = {}
  /\ reader = [listing |-> {}, observed |-> {}]

NoAdapterCall == adapterIn = <<>> /\ adapterOut = NotCleaned
NoParserCall ==
  /\ parserIn = [ctrl |-> NoController, handlerName |-> ""]
  /\ parserOut = NotParsed
NoScan ==
  /\ scanIn = [disk |-> [exists |-> FALSE, files |-> {}], file |-> ""]
  /\ scanOut = NotScanned

Init ==
  /\ \E client \in ClientStates, disk \in InitialDisks : ProcessStart(client, disk)
  /\ NoAdapterCall /\ NoParserCall /\ NoScan

\* The pipeline: one run of runFullPipeline.
Next == RunFullPipeline \/ Analyzer \/ Sweep \/ Attempt

Spec == Init /\ [][Next]_vars

\* The pipeline with the steps of the program itself taken whenever they
\* can be; what the model service does is left to the service.
FairSpec ==
  Spec /\ WF_vars(RunFullPipeline) /\ WF_vars(Analyzer) /\ WF_vars(Sweep)
       /\ WF_vars(AttemptStep)

\* The pipeline beside another writer to analysis_reports/.
NextSweep == RunFullPipeline \/ Analyzer \/ OtherWriter \/ Sweep \/ Attempt

SpecSweep == Init /\ [][NextSweep]_vars

\* The model client on its own, called with any payload and options.
NextClient == AnalyzeEndpointCalled \/ SetModel \/ Attempt

SpecClient == Init /\ [][NextClient]_vars

\* The model client with its own steps taken whenever they can be.
FairSpecClient == SpecClient /\ WF_vars(AttemptStep)

\* The analyzer beside a concurrent reader of analysis_reports/.
NextSave == StartAnalyzer \/ Analyzer \/ ReaderList \/ ReaderRead

SpecSave == Init /\ [][NextSave]_vars

\* cleanGeminiResponse applied to each raw text.
InitAdapter ==
  /\ ProcessStart(NULL, [analysisDir |-> NoDirectory, aiReports |-> {}])
  /\ adapterIn \in AdapterInputs /\ adapterOut = NotCleaned
  /\ NoParserCall /\ NoScan
NextAdapter == CleanGeminiResponse
SpecAdapter == InitAdapter /\ [][NextAdapter]_vars

\* extractFunctionCode applied to each controller file.
InitParser ==
  /\ ProcessStart(NULL, [analysisDir |-> NoDirectory, aiReports |-> {}])
  /\ parserIn \in ParserInputs /\ parserOut = NotParsed
  /\ NoAdapterCall /\ NoScan
NextParser == ExtractFunctionCode
SpecParser == InitParser /\ [][NextParser]_vars

\* Each scanner entry point applied to each routes directory and path.
InitScan ==
  /\ ProcessStart(NULL, [analysisDir |-> NoDirectory, aiReports |-> {}])
  /\ scanIn \in {[disk |-> d, file |-> RouteFileNames[i]] :
                   d \in RoutesDisks, i \in DOMAIN RouteFileNames}
  /\ scanOut = NotScanned
  /\ NoAdapterCall /\ NoParserCall
NextScan ==
  \/ ScanRoutesFile
  \/ ScanRoutesDirectory
  \/ ExtractEndpointsFromFile
  \/ ScanRoutesDirectoryOfModule
SpecScan == InitScan /\ [][NextScan]_vars

\* ------------------------------------------------------------------ claims
\* C1 as stated: analyzeEndpoint invokes the model at most N times, N the
\* retry count (opts.retries, 3 when not configured).
\* (Stated for N >= 1: with N = 0 the one attempt p-retry always makes is
\* already more than N.)
C1_AtMostNInvocations == call.retries >= 1 => call.netCalls <= call.retries

\* C1, amended: analyzeEndpoint invokes the model at most N + 1 times (one
\* first attempt and N retries), N being opts.retries, or 3 when the caller
\* gave none; after the (N+1)-th failed attempt the call is rejected and
\* no attempt follows.
C1_AtMostNPlusOneInvocations ==
  /\ call.netCalls <= call.attempts + (IF call.waiting THEN 1 ELSE 0)
  /\ call.netCalls <= call.retries + 1
  /\ call.attempts <= call.retries + 1
  /\ (call.status = "running" => call.attempts <= call.retries)
  /\ (call.attempts > 0 /\ ~call.hasRetries => call.retries = DefaultRetries)

\* An unconfigured call that failed on the network N + 1 = 4 times.
C1_Witness ==
  /\ call.status = "rejected"
  /\ ~call.hasRetries
  /\ call.netCalls = DefaultRetries + 1

\* C2: with the client not initialised, analyzeEndpoint fails on the first
\* attempt, before any request is sent, and no retry follows.
C2_NotConfiguredIsNotRetried ==
  genaiClient = NULL => (call.attempts <= 1 /\ call.netCalls = 0)

\* C3: once an attempt of a call has returned a response text, the call is
\* resolved with that text and no further attempt is made, whether or not
\* the text parses as JSON.
C3_NoRetryAfterResponse ==
  /\ call.responses <= 1
  /\ (call.responses = 1 =>
        /\ call.status = "resolved"
        /\ call.result.raw \in ResponseTexts)
  /\ (call.status = "resolved" => call.responses = 1)

\* A call resolved with {raw, parsed: null} after an earlier failed attempt.
C3_Witness ==
  /\ call.status = "resolved"
  /\ call.result.parsed.null
  /\ call.result.raw = <<"{", "x", "}">>
  /\ call.attempts = 2

PayloadCount == Cardinality(PayloadFilter(Names(analysisDir)))
InsightsOfRun == {r \in aiReports : r.run = run.id}
\* Phase 1 of a pipeline run ended normally.
AfterPhase1 ==
  /\ run.mode = "pipeline"
  /\ \/ pc \in {"sweepStart", "sweep", "awaitModel"}
     \/ pc = "done" /\ run.exit = "success"
\* analyzeEndpoint used up its retries for the payload at hand.
Exhausted ==
  /\ pc = "awaitModel"
  /\ call.status = "rejected"
  /\ call.attempts = call.retries + 1

\* C4: in the sweep, when analyzeEndpoint exhausts its retries for a
\* payload, the error of its last attempt reaches the sweep, no insight is
\* written for that payload, the sweep goes on with the next file, and a
\* sweep that returns has handed every payload of its listing to the model.
C4_ExhaustionSkipsOnlyThatPayload ==
  /\ [](Exhausted => call.error # NULL)
  /\ [][Exhausted => /\ aiReports' = aiReports
                     /\ pc' = "sweep"
                     /\ fileIdx' = fileIdx + 1
                     /\ payloadFiles' = payloadFiles
                     /\ run'.exit = "running"]_vars
  /\ []((pc = "done" /\ run.exit = "success" /\ run.mode = "pipeline") =>
          {f.name : f \in handed} = {payloadFiles[i] : i \in DOMAIN payloadFiles})

\* A sweep of two payloads that returned with one insight, written for the
\* second file of the listing: the call for the first one failed.
C4_Witness ==
  /\ pc = "done" /\ run.exit = "success" /\ ~run.writeFailed
  /\ Len(payloadFiles) = 2
  /\ Cardinality(handed) = 2
  /\ \E r \in aiReports : r.run = run.id /\ r.of = payloadFiles[2]
  /\ Cardinality(InsightsOfRun) = 1

\* C5: every payload file the sweep lists or hands to the model was written
\* during the same run; what an earlier run left is never reviewed again.
C5_OnlyFreshPayloadsSwept ==
  /\ \A f \in handed : f.run = run.id
  /\ pc \in {"sweep", "awaitModel"} =>
       \A i \in DOMAIN payloadFiles :
         FileNamed(analysisDir, payloadFiles[i]).run = run.id

\* A run that found a stale payload, removed it and handed a fresh one.
C5_Witness ==
  /\ run.cleared > 0
  /\ handed # {}

C7_ExtractionMissNeverRaises ==
  /\ run.crash # "SyntaxError"
  /\ (pc = "done" /\ ~run.writeFailed) => epIdx > Len(selected)

\* C8: a persistence error while writing a payload or an insight is fatal:
\* nothing is processed after it and the run ends with a failure status.
C8_PersistenceErrorIsFatal ==
  run.writeFailed => (pc = "done" /\ run.exit = "failure")

\* C9: a concurrent reader of analysis_reports/ never reads a partially
\* written file, and every .json file in the directory is complete.
C9_NoPartialPayloadObserved ==
  /\ \A o \in reader.observed : o.complete
  /\ \A f \in analysisDir.files : f.name.ext = "json" => f.complete

\* The reader has read a payload of this run while the next save has its
\* temporary file half written.
C9_Witness ==
  /\ pc = "saveWrite"
  /\ ~saving.complete /\ saving \in analysisDir.files
  /\ \E o \in reader.observed : o.name.ts > 0 /\ o.complete
  /\ reader.listing # {}

\* C10: the insight store is append-only: an insight once written is never
\* deleted and never overwritten.
C10_InsightsAppendOnly == [][aiReports \subseteq aiReports']_vars

\* No JSON object can be parsed from a raw text: the text has no brace, or
\* neither the candidate text nor its repair parses to an object.
NoObjectIn(raw) ==
  \/ \A i \in 1..Len(raw) : raw[i] \notin Braces
  \/ /\ JSONparse(candidate(raw)).kind # "object"
     /\ JSONparse(autoFix(candidate(raw))).kind # "object"

\* C11: for every raw text from which no JSON object can be parsed, even
\* after the repair pass (every text without braces among them),
\* cleanGeminiResponse returns the error shape with a non-empty error: it
\* neither raises nor returns the success shape.
C11_UnparsableGivesErrorShape ==
  (adapterOut.applied /\ NoObjectIn(adapterIn)) =>
    /\ ~adapterOut.value.threw
    /\ "error" \in adapterOut.value.keys
    /\ adapterOut.value.error # ""
    /\ adapterOut.value.keys \cap SuccessKeys = {}

\* C12: every value cleanGeminiResponse returns has the success shape (all
\* of summary, issues, suggestions, before_after, notes) or the error shape
\* (all of error, extracted, raw).
C12_TwoShapesOnly ==
  (adapterOut.applied /\ ~adapterOut.value.threw) =>
    adapterOut.value.keys \in {SuccessKeys, ErrorKeys}

\* C13: for a json-tagged fenced block around a JSON object with the five
\* keys, cleanGeminiResponse returns an insight whose five fields are
\* exactly the values of that object.
C13_FencedRoundTrip ==
  \A d \in FullDocs :
    (adapterOut.applied /\ adapterIn = Fenced(DocText[d])) =>
      /\ ~adapterOut.value.threw
      /\ adapterOut.value.keys = SuccessKeys
      /\ adapterOut.value.summary = d.summary
      /\ adapterOut.value.issues = d.issues
      /\ adapterOut.value.suggestions = d.suggestions
      /\ adapterOut.value.before_after = d.before_after
      /\ adapterOut.value.notes = d.notes

\* The place of the first top-level declaration of a controller file that
\* satisfies ok, or <<>>.
FirstTopLevel(ast, ok(_)) ==
  LET at == {i \in DOMAIN ast : ok(ast[i])}
  IN IF at = {} THEN <<>> ELSE <<CHOOSE i \in at : \A j \in at : i <= j>>

\* The search order of the specification: the first top-level function
\* declaration of that name, else the first top-level binding of that name
\* to a function, else nothing.
SearchOrder(ast, h) ==
  LET decl(n) == n.type = "FunctionDeclaration" /\ n.name = h
      bind(n) == /\ n.type = "VariableDeclarator" /\ n.name = h
                 /\ n.init \in FunctionInits
  IN IF FirstTopLevel(ast, decl) # <<>> THEN FirstTopLevel(ast, decl)
     ELSE FirstTopLevel(ast, bind)

\* C14: extractFunctionCode returns the first top-level function
\* declaration named h when there is one, wherever a binding named h sits;
\* else the first top-level binding of h to a function; never a
\* declaration or binding nested in another function.
C14_DeclarationThenBindingTopLevelOnly ==
  (parserOut.applied /\ parserIn.ctrl.parses) =>
    /\ parserOut.value.at = SearchOrder(parserIn.ctrl.ast, parserIn.handlerName)
    /\ parserOut.value.found = (parserOut.value.at # <<>>)

\* The path a scanner entry point was given does not exist: the file for
\* the file scanners, the directory for the directory scanners.
ScannedPathMissing ==
  \/ /\ scanOut.fn \in {"scanRoutesFile", "extractEndpointsFromFile"}
     /\ scanIn.file \notin scanIn.disk.files
  \/ /\ scanOut.fn \in {"scanRoutesDirectory", "scanRoutesDirectoryOfModule"}
     /\ ~scanIn.disk.exists

\* C15: scanning a route file or directory whose path does not exist
\* returns the empty sequence and never raises, whichever scanner entry
\* point is used.
C15_MissingPathScansEmpty ==
  ScannedPathMissing => (~scanOut.threw /\ scanOut.endpoints = <<>>)

\* No selected endpoint can yield a payload: the route file has no
\* endpoints, or the controller file is missing, or it parses and declares
\* none of the selected handlers anywhere.
ZeroUsable ==
  /\ run.mode = "pipeline"
  /\ pc \in {"analyzer", "sweepStart"}
  /\ run.saved = 0
  /\ \/ ~controller.exists
     \/ /\ controller.parses
        /\ \A i \in DOMAIN selected :
             \A k \in DOMAIN preorder(controller.ast, 1) :
               ~visitorMatches(preorder(controller.ast, 1)[k].node,
                               selected[i].handler)

C17_EveryCallEnds ==
  (call.status = "running") ~> (call.status \in {"resolved", "rejected"})

\* C18: every request of a call carries one model identifier, opts.model
\* when given and else the default in force when the call started; setModel
\* never changes the call in progress, and a call started after it takes
\* the new default.
C18_OneModelPerCall ==
  /\ [](call.requestModels \subseteq {call.model})
  /\ [](call.status \in {"running", "resolved"} =>
          call.model = IF call.optsModel # UNDEFINED THEN call.optsModel
                       ELSE call.defaultAtStart)
  /\ [][DEFAULT_MODEL' # DEFAULT_MODEL => call' = call]_vars
  /\ [][(call.status # "running" /\ call'.status = "running") =>
          call'.defaultAtStart = DEFAULT_MODEL]_vars

\* A call without opts.model that has sent two requests, both for the
\* default it started with, while setModel has changed the default.
C18_Witness ==
  /\ call.status = "running"
  /\ call.optsModel = UNDEFINED
  /\ call.netCalls >= 2
  /\ call.requestModels = {call.defaultAtStart}
  /\ DEFAULT_MODEL # call.defaultAtStart

\* A payload file the sweep can use: a JSON document with function code.
Usable(f) ==
  f.complete /\ (f.payload.function.cleanedCode \/ f.payload.function.sanitizedCode)

\* C19: the sweep visits every .json file of its listing: a file it cannot
\* use (no JSON document, or no function code) triggers no model call and
\* never keeps the files after it from being visited.
C19_UnusableFileNeverStopsSweep ==
  /\ \A f \in handed : Usable(f)
  /\ (pc = "done" /\ payloadFiles # <<>>) => fileIdx > Len(payloadFiles)

====
